---- MODULE Spec2Model ----
(***************************************************************************)
(* Execution model of the two notebooks of BayesianModelEvaluation:        *)
(*   notebooks/4_SingleModelResults/2_Stu_SingleModelVisualizations.ipynb  *)
(*   notebooks/5_ModelComparison/1_Ins_ModelComparison.ipynb               *)
(* A kernel session executes code cells; a cell executes its statements in *)
(* order and stops at the first statement that raises.  The state is the   *)
(* kernel's namespace, its heap of loaded objects, the process-wide state  *)
(* (working directory, RNG seed, plot style), the disk and the notebook    *)
(* UI's last output.                                                       *)
(***************************************************************************)
EXTENDS Integers, Sequences, FiniteSets, TLC

VARIABLES nb, disk, cwd, rng, style, env, heap, tmp, pc, err, out, runs,
          loads, computed, deps, gw, start, cwd0, setups, opened

vars == <<nb, disk, cwd, rng, style, env, heap, tmp, pc, err, out, runs,
          loads, computed, deps, gw, start, cwd0, setups, opened>>

\* ------------------------------------------------------------------ bounds

\* Cell executions of one interactive session.
MaxRuns == 4

\* ------------------------------------------------------------------- paths

\* A path is the sequence of its components below the file-system root.
Parent(p) == IF Len(p) = 0 THEN p ELSE SubSeq(p, 1, Len(p) - 1)

\* os.path.split(p)[-1]
Basename(p) == IF Len(p) = 0 THEN "" ELSE p[Len(p)]

\* os.path.join(a, b), and the resolution of a relative path against a directory
Join(p, rel) == p \o rel

RepoDir == <<"repo">>

NotebooksDir == <<"repo", "notebooks">>

\* The directory that holds each notebook.
OwnDir(n) ==
    IF n = "single" THEN <<"repo", "notebooks", "4_SingleModelResults">>
    ELSE <<"repo", "notebooks", "5_ModelComparison">>

Notebooks == {"single", "compare"}

\* ----------------------------------------------------------------- program

\* One statement (or one evaluation step of a nested expression).
\*   op     the operation
\*   target the name the result is bound to; "" for an expression statement;
\*          "%" for an intermediate value of a nested expression
\*   a      the argument: module, dataset, style, string or referenced name
\*   path   the relative path handed to az.from_netcdf
\*   items  the <<label, reference>> pairs of a dict display
\*   scale  the scale argument of az.compare
S(op, target, a, path, items, scale) ==
    [op |-> op, target |-> target, a |-> a, path |-> path, items |-> items,
     scale |-> scale]

Import(name, module) == S("import", name, module, <<>>, <<>>, "")

\* ---- 2_Stu_SingleModelVisualizations.ipynb, code cells in document order

\* The setup cell with the comparison notebook's import of utils copied in.
SingleSetupWithUtils ==
    << Import("os", "os"), Import("az", "arviz"), Import("np", "numpy"),
       Import("pd", "pandas"), Import("plt", "matplotlib.pyplot"),
       S("if_chdir", "", "notebooks", <<>>, <<>>, ""),
       S("import_local", "metropolis_hastings", "utils", <<>>, <<>>, ""),
       S("seed", "", "0", <<>>, <<>>, "") >>

\* The setup cell changing directory without the test of the directory name.
SingleSetupUnguarded ==
    << Import("os", "os"), Import("az", "arviz"), Import("np", "numpy"),
       Import("pd", "pandas"), Import("plt", "matplotlib.pyplot"),
       S("if_chdir", "", "", <<>>, <<>>, ""),
       S("seed", "", "0", <<>>, <<>>, "") >>

SingleSetup ==
    << Import("os", "os"), Import("az", "arviz"), Import("np", "numpy"),
       Import("pd", "pandas"), Import("plt", "matplotlib.pyplot"),
       S("if_chdir", "", "notebooks", <<>>, <<>>, ""),
       S("seed", "", "0", <<>>, <<>>, "") >>

SingleStyle == << S("style_use", "", "arviz-white", <<>>, <<>>, "") >>

\* The load cell repeating the setup cell's change of directory.
LoadGreenpowerChdir ==
    << S("if_chdir", "", "notebooks", <<>>, <<>>, ""),
       S("from_netcdf", "greenpower", "",
         <<"inference_data", "GreenPower.nc">>, <<>>, "") >>

\* The three loads gathered in the first load cell.
LoadGreenpowerAndOthers ==
    << S("from_netcdf", "greenpower", "",
         <<"inference_data", "GreenPower.nc">>, <<>>, ""),
       S("from_netcdf", "budgetfertilizer", "",
         <<"inference_data", "BudgetFertilizer.nc">>, <<>>, ""),
       S("from_netcdf", "rootsgalore", "",
         <<"inference_data", "RootsGalore.nc">>, <<>>, "") >>

LoadGreenpower ==
    << S("from_netcdf", "greenpower", "",
         <<"inference_data", "GreenPower.nc">>, <<>>, "") >>

\* The cell copied from the one above with the file name left unchanged.
LoadBudgetfertilizerCopied ==
    << S("from_netcdf", "budgetfertilizer", "",
         <<"inference_data", "GreenPower.nc">>, <<>>, "") >>

LoadBudgetfertilizer ==
    << S("from_netcdf", "budgetfertilizer", "",
         <<"inference_data", "BudgetFertilizer.nc">>, <<>>, "") >>

\* The load cell importing the modules it uses itself.
LoadRootsgaloreImporting ==
    << Import("os", "os"), Import("az", "arviz"),
       S("from_netcdf", "rootsgalore", "",
         <<"inference_data", "RootsGalore.nc">>, <<>>, "") >>

LoadRootsgalore ==
    << S("from_netcdf", "rootsgalore", "",
         <<"inference_data", "RootsGalore.nc">>, <<>>, "") >>

\* "# Plot Forest": a comment only
PlotForest == << >>

\* "# Create Summary Tables, one for each fertilizer": a comment only
SummaryTables == << >>

SingleCells ==
    << SingleSetup, SingleStyle, LoadGreenpower, LoadBudgetfertilizer,
       LoadRootsgalore, PlotForest, SummaryTables >>

\* ---- 1_Ins_ModelComparison.ipynb, code cells in document order

\* The setup cell seeding after its change of directory, as the single-model
\* notebook's does.
CompareSetupSeedAfterChdir ==
    << Import("os", "os"), Import("time", "time"), Import("az", "arviz"),
       Import("np", "numpy"), Import("pm", "pymc3"),
       Import("stats", "scipy.stats"),
       S("if_chdir", "", "notebooks", <<>>, <<>>, ""),
       S("seed", "", "0", <<>>, <<>>, ""),
       S("import_local", "metropolis_hastings", "utils", <<>>, <<>>, ""),
       S("assign_str", "NETCDF_DIR", "inference_data", <<>>, <<>>, "") >>

\* The setup cell importing utils ahead of the change of directory.
CompareSetupImportFirst ==
    << Import("os", "os"), Import("time", "time"), Import("az", "arviz"),
       Import("np", "numpy"), Import("pm", "pymc3"),
       Import("stats", "scipy.stats"),
       S("seed", "", "0", <<>>, <<>>, ""),
       S("import_local", "metropolis_hastings", "utils", <<>>, <<>>, ""),
       S("if_chdir", "", "notebooks", <<>>, <<>>, ""),
       S("assign_str", "NETCDF_DIR", "inference_data", <<>>, <<>>, "") >>

\* The setup cell with the directory name of the test misspelt.
CompareSetupMisspelt ==
    << Import("os", "os"), Import("time", "time"), Import("az", "arviz"),
       Import("np", "numpy"), Import("pm", "pymc3"),
       Import("stats", "scipy.stats"),
       S("seed", "", "0", <<>>, <<>>, ""),
       S("if_chdir", "", "notebook", <<>>, <<>>, ""),
       S("import_local", "metropolis_hastings", "utils", <<>>, <<>>, ""),
       S("assign_str", "NETCDF_DIR", "inference_data", <<>>, <<>>, "") >>

CompareSetup ==
    << Import("os", "os"), Import("time", "time"), Import("az", "arviz"),
       Import("np", "numpy"), Import("pm", "pymc3"),
       Import("stats", "scipy.stats"),
       S("seed", "", "0", <<>>, <<>>, ""),
       S("if_chdir", "", "notebooks", <<>>, <<>>, ""),
       S("import_local", "metropolis_hastings", "utils", <<>>, <<>>, ""),
       S("assign_str", "NETCDF_DIR", "inference_data", <<>>, <<>>, "") >>

CompareStyle == << S("style_use", "", "arviz-white", <<>>, <<>>, "") >>

\* The two loaded objects handed to the dict in the wrong order.
CompareCellSwapped ==
    << S("load_arviz_data", "data1", "non_centered_eight", <<>>, <<>>, ""),
       S("load_arviz_data", "data2", "centered_eight", <<>>, <<>>, ""),
       S("dict", "compare_dict", "", <<>>,
         << <<"non centered", "data2">>, <<"centered", "data1">> >>, ""),
       S("compare", "", "compare_dict", <<>>, <<>>, "deviance") >>

\* Both models given the same label.
CompareCellOneLabel ==
    << S("load_arviz_data", "data1", "non_centered_eight", <<>>, <<>>, ""),
       S("load_arviz_data", "data2", "centered_eight", <<>>, <<>>, ""),
       S("dict", "compare_dict", "", <<>>,
         << <<"centered", "data1">>, <<"centered", "data2">> >>, ""),
       S("compare", "", "compare_dict", <<>>, <<>>, "deviance") >>

CompareCell ==
    << S("load_arviz_data", "data1", "non_centered_eight", <<>>, <<>>, ""),
       S("load_arviz_data", "data2", "centered_eight", <<>>, <<>>, ""),
       S("dict", "compare_dict", "", <<>>,
         << <<"non centered", "data1">>, <<"centered", "data2">> >>, ""),
       S("compare", "", "compare_dict", <<>>, <<>>, "deviance") >>

\* The cell loading its own copies of the two datasets.
CompareLogCellReloading ==
    << S("load_arviz_data", "%", "non_centered_eight", <<>>, <<>>, ""),
       S("load_arviz_data", "%", "centered_eight", <<>>, <<>>, ""),
       S("dict", "%", "", <<>>,
         << <<"non centered", "%1">>, <<"centered", "%2">> >>, ""),
       S("compare", "", "%3", <<>>, <<>>, "log") >>

\* The cell with its scale argument left out.
CompareLogCellDeviance ==
    << S("compare", "", "compare_dict", <<>>, <<>>, "deviance") >>

CompareLogCell == << S("compare", "", "compare_dict", <<>>, <<>>, "log") >>

\* The cell reusing the name data1 for the dataset it loads.
PlotCompareCellRebinding ==
    << S("load_arviz_data", "data1", "centered_eight", <<>>, <<>>, ""),
       S("load_arviz_data", "%", "non_centered_eight", <<>>, <<>>, ""),
       S("dict", "%", "", <<>>,
         << <<"Centered 8 schools", "data1">>,
            <<"Non-centered 8 schools", "%1">> >>, ""),
       S("compare", "model_compare", "%2", <<>>, <<>>, "deviance"),
       S("plot_compare", "", "model_compare", <<>>, <<>>, "") >>

\* The nested expression is unfolded in Python's evaluation order: the dict
\* values left to right, then the dict, then the call.
PlotCompareCell ==
    << S("load_arviz_data", "%", "centered_eight", <<>>, <<>>, ""),
       S("load_arviz_data", "%", "non_centered_eight", <<>>, <<>>, ""),
       S("dict", "%", "", <<>>,
         << <<"Centered 8 schools", "%1">>,
            <<"Non-centered 8 schools", "%2">> >>, ""),
       S("compare", "model_compare", "%3", <<>>, <<>>, "deviance"),
       S("plot_compare", "", "model_compare", <<>>, <<>>, "") >>

\* the empty last cell
LastCell == << >>

CompareCells ==
    << CompareSetup, CompareStyle, CompareCell, CompareLogCell,
       PlotCompareCell, LastCell >>

Cells(n) == IF n = "single" THEN SingleCells ELSE CompareCells

SetupCell == 1

StyleCell == 2

NumCells(n) == Len(Cells(n))

\* The files the activity narrative of the single-model notebook names.
NarrativeFiles == {"GreenPower.nc", "BudgetFertilizer.nc", "RootsGalore.nc"}

\* The columns the comparison notebook lists under its tables, in its order.
ListedColumns == <<"WAIC", "p_waic", "Weight", "se", "dse", "Warning", "Scale">>

\* Every name a cell binds.
Names ==
    {"os", "az", "np", "pd", "plt", "time", "pm", "stats",
     "metropolis_hastings", "NETCDF_DIR",
     "greenpower", "budgetfertilizer", "rootsgalore",
     "data1", "data2", "compare_dict", "model_compare"}

\* Every dataset a load call names.
Datasets ==
    {"GreenPower.nc", "BudgetFertilizer.nc", "RootsGalore.nc",
     "centered_eight", "non_centered_eight"}

LoadOps == {"from_netcdf", "load_arviz_data"}

\* summarization / comparison / plotting calls
ComputeOps == {"compare", "plot_compare"}

\* ------------------------------------------------------------------ values

Unbound == [t |-> "unbound"]

Module(m) == [t |-> "module", name |-> m]

Str(s) == [t |-> "str", s |-> s]

\* A reference to the heap object id (an InferenceData).
IData(id) == [t |-> "idata", id |-> id]

\* items: sequence of [label, id], labels distinct, in insertion order
Dict(items) == [t |-> "dict", items |-> items]

Table(columns, rows) == [t |-> "table", columns |-> columns, rows |-> rows]

Axes == [t |-> "axes"]

NoOut == [t |-> "none"]

NoErr == [kind |-> "", cell |-> 0, stmt |-> 0]

Idle == [cell |-> 0, stmt |-> 0]

\* ---------------------------------------------------------------- az.compare

\* Column header of the tables saved in the comparison notebook.
CompareColumns ==
    <<"waic", "p_waic", "d_waic", "weight", "se", "dse", "warning",
      "waic_scale">>

\* The figures of the two saved tables, in units of 10^-7.
SavedStats(dataset, scale) ==
    IF scale = "deviance"
    THEN IF dataset = "non_centered_eight"
         THEN [waic |-> 613022000, p_waic |-> 8200670, weight |-> 5156770,
               se |-> 26311000, dse |-> 1068820]
         ELSE [waic |-> 614296000, p_waic |-> 9195480, weight |-> 4843230,
               se |-> 25958300, dse |-> 1068820]
    ELSE IF dataset = "non_centered_eight"
         THEN [waic |-> -306511000, p_waic |-> 8200670, weight |-> 5168130,
               se |-> 12618400, dse |-> 534409]
         ELSE [waic |-> -307148000, p_waic |-> 9195480, weight |-> 4831870,
               se |-> 12430200, dse |-> 534409]

\* Row labels of the saved tables, top to bottom.
SavedRowLabels == <<"non centered", "centered">>

\* ArviZ ranks from best to worst: ascending on the deviance scale,
\* descending on the log scale.
Better(scale, a, b) == IF scale = "log" THEN a >= b ELSE a =< b

RECURSIVE Ranked(_, _, _)
Ranked(items, h, scale) ==
    IF items = {} THEN <<>>
    ELSE LET best == CHOOSE i \in items : \A j \in items :
                        Better(scale, SavedStats(h[i.id].dataset, scale).waic,
                                      SavedStats(h[j.id].dataset, scale).waic)
         IN <<best>> \o Ranked(items \ {best}, h, scale)

Abs(x) == IF x < 0 THEN -x ELSE x

\* az.compare(d, scale=scale) on heap h: one row per key of d.
az_compare(d, h, scale) ==
    LET order == Ranked({d.items[i] : i \in 1..Len(d.items)}, h, scale)
        top == SavedStats(h[order[1].id].dataset, scale).waic
        Row(k) ==
            LET st == SavedStats(h[order[k].id].dataset, scale)
            IN [label |-> order[k].label, waic |-> st.waic,
                p_waic |-> st.p_waic, d_waic |-> Abs(st.waic - top),
                weight |-> st.weight, se |-> st.se,
                dse |-> IF k = 1 THEN 0 ELSE st.dse,
                warning |-> FALSE, waic_scale |-> scale]
    IN Table(CompareColumns, [k \in 1..Len(order) |-> Row(k)])

\* A dict display: a later pair with the same key replaces the earlier value.
RECURSIVE DictOf(_)
DictOf(pairs) ==
    IF pairs = <<>> THEN <<>>
    ELSE LET init == DictOf(SubSeq(pairs, 1, Len(pairs) - 1))
             p == pairs[Len(pairs)]
         IN IF \E i \in 1..Len(init) : init[i].label = p.label
            THEN [i \in 1..Len(init) |->
                    IF init[i].label = p.label THEN p ELSE init[i]]
            ELSE Append(init, p)

\* ------------------------------------------------------------- environment

\* Directories a kernel may be started in.
StartDirs(n) == {OwnDir(n), NotebooksDir, RepoDir}

DataFiles ==
    {Join(NotebooksDir, <<"inference_data", f>>) :
        f \in {"GreenPower.nc", "BudgetFertilizer.nc", "RootsGalore.nc"}}

UtilsFile == Join(NotebooksDir, <<"utils.py">>)

\* Check-outs a session may run against: any of the data files may be missing
\* for the single-model notebook, utils.py for the comparison notebook.
Disks(n) ==
    IF n = "single" THEN {X \cup {UtilsFile} : X \in SUBSET DataFiles}
    ELSE {DataFiles, DataFiles \cup {UtilsFile}}

\* The plot saved to the working directory as well as shown.
FilesWrittenSavefig(s, dir) ==
    IF s.op = "plot_compare" THEN {Join(dir, <<"compare.png">>)} ELSE {}

\* Files a statement creates or overwrites when executed in directory dir:
\* no statement of either notebook opens a file for writing.
FilesWritten(s, dir) == {}

\* ArviZ objects a call modifies, among the ids it is handed: az.compare and
\* az.plot_compare only read their inputs.
Modified(s, ids) == {}

\* Process-wide state a statement reads.
Reads(op) ==
    CASE op \in {"if_chdir", "from_netcdf", "import_local"} -> {"cwd"}
      [] op = "plot_compare" -> {"style"}
      [] OTHER -> {}

\* ------------------------------------------------------------------ session

Init ==
    /\ nb \in Notebooks
    /\ cwd \in StartDirs(nb)
    /\ disk \in Disks(nb)
    /\ rng = "entropy"
    /\ style = "default"
    /\ env = [n \in Names |-> Unbound]
    /\ heap = <<>>
    /\ tmp = <<>>
    /\ pc = Idle
    /\ err = NoErr
    /\ out = NoOut
    /\ runs = 0
    /\ loads = [d \in Datasets |-> 0]
    /\ computed = FALSE
    /\ deps = {}
    /\ gw = [cwd |-> 0, rng |-> 0, style |-> 0]
    /\ start = cwd
    /\ cwd0 = cwd
    /\ setups = 0
    /\ opened = {}

Running == pc.cell # 0 /\ pc.stmt <= Len(Cells(nb)[pc.cell])

Cur == Cells(nb)[pc.cell][pc.stmt]

At(op) == Running /\ Cur.op = op

Bound(n) == env[n].t # "unbound"

IsTmp(ref) == ref \in {"%1", "%2", "%3"}

TmpIx(ref) == CASE ref = "%1" -> 1 [] ref = "%2" -> 2 [] OTHER -> 3

Lookup(ref) == IF IsTmp(ref) THEN tmp[TmpIx(ref)] ELSE env[ref]

RefBound(ref) == IF IsTmp(ref) THEN TmpIx(ref) <= Len(tmp) ELSE Bound(ref)

\* The statement after the current one.
Step == [pc EXCEPT !.stmt = @ + 1]

\* The statement wrapped in try/except: the cell carries on.
AfterRaiseSwallowed == Step

\* Where control goes when a statement raises: no cell has a try/except, so
\* the cell is abandoned at the failing statement.
AfterRaise == Idle

\* Assignment of v to a statement's target.
BindEnv(target, v) ==
    IF target \in Names THEN [env EXCEPT ![target] = v] ELSE env

BindTmp(target, v) == IF target = "%" THEN Append(tmp, v) ELSE tmp

\* The value of a cell's closing expression statement is displayed.
Display(target, v) == IF target = "" THEN v ELSE out

\* Cross-cell dependences added by reading process-wide state now.
Touch(reads) ==
    deps \cup {<<g, gw[g], pc.cell>> : g \in {x \in reads : gw[x] \notin {0, pc.cell}}}

\* The statement raises: the traceback is shown, nothing is bound.
Raise(kind) ==
    /\ pc' = AfterRaise
    /\ err' = [kind |-> kind, cell |-> pc.cell, stmt |-> pc.stmt]
    /\ out' = [t |-> "traceback", kind |-> kind]
    /\ tmp' = <<>>
    /\ env' = env
    /\ heap' = heap

\* Files a statement asks the operating system to open when executed in
\* directory dir: the relative path of az.from_netcdf, resolved against dir.
Opens(s, dir) == IF s.op = "from_netcdf" THEN {Join(dir, s.path)} ELSE {}

\* What every statement does besides its own effect.  start is the directory
\* the kernel was started in, cwd0 the working directory when the running
\* cell was started, setups the number of executions of the setup cell, and
\* opened the files load calls have asked for.
Common ==
    /\ disk' = disk \cup FilesWritten(Cur, cwd)
    /\ opened' = IF Bound("az") /\ Bound("os") THEN opened \cup Opens(Cur, cwd)
                 ELSE opened
    /\ UNCHANGED <<nb, runs, start, cwd0, setups>>

\* The user (or Run All) starts cell c.
Start(c) ==
    /\ pc = Idle
    /\ c \in 1..NumCells(nb)
    /\ pc' = [cell |-> c, stmt |-> 1]
    /\ err' = NoErr
    /\ out' = NoOut
    /\ tmp' = <<>>
    /\ runs' = runs + 1
    /\ cwd0' = cwd
    /\ setups' = IF c = SetupCell THEN setups + 1 ELSE setups
    /\ UNCHANGED <<nb, disk, cwd, rng, style, env, heap, loads, computed,
                   deps, gw, start, opened>>

\* Interactive session: any cell, in any order, any number of times.
RunCell ==
    /\ runs < MaxRuns
    /\ \E c \in 1..NumCells(nb) : Start(c)

\* Run All: the next cell in document order, unless a cell has raised.
RunNext ==
    /\ err = NoErr
    /\ runs < NumCells(nb)
    /\ Start(runs + 1)

FinishCell ==
    /\ pc.cell # 0
    /\ pc.stmt > Len(Cells(nb)[pc.cell])
    /\ pc' = Idle
    /\ tmp' = <<>>
    /\ UNCHANGED <<nb, disk, cwd, rng, style, env, heap, err, out, runs,
                   loads, computed, deps, gw, start, cwd0, setups, opened>>

\* import m as name
ExecImport ==
    /\ At("import")
    /\ env' = BindEnv(Cur.target, Module(Cur.a))
    /\ pc' = Step
    /\ Common
    /\ UNCHANGED <<cwd, rng, style, heap, tmp, err, out, loads, computed,
                   deps, gw>>

\* np.random.seed(0)
ExecSeed ==
    /\ At("seed")
    /\ IF ~Bound("np")
       THEN Raise("NameError") /\ UNCHANGED <<rng, gw>>
       ELSE /\ rng' = Cur.a
            /\ gw' = [gw EXCEPT !.rng = pc.cell]
            /\ pc' = Step
            /\ UNCHANGED <<env, heap, tmp, err, out>>
    /\ Common
    /\ UNCHANGED <<cwd, style, loads, computed, deps>>

\* if os.path.split(os.getcwd())[-1] != "notebooks": os.chdir(os.path.join(".."))
ExecIfChdir ==
    /\ At("if_chdir")
    /\ IF ~Bound("os")
       THEN Raise("NameError") /\ UNCHANGED <<cwd, gw, deps>>
       ELSE /\ cwd' = IF Basename(cwd) # Cur.a THEN Parent(cwd) ELSE cwd
            /\ gw' = IF Basename(cwd) # Cur.a
                     THEN [gw EXCEPT !.cwd = pc.cell] ELSE gw
            /\ deps' = Touch(Reads(Cur.op))
            /\ pc' = Step
            /\ UNCHANGED <<env, heap, tmp, err, out>>
    /\ Common
    /\ UNCHANGED <<rng, style, loads, computed>>

\* from utils import metropolis_hastings: utils.py is looked up in the
\* working directory of the moment.
ExecImportLocal ==
    /\ At("import_local")
    /\ IF Join(cwd, <<"utils.py">>) \in disk
       THEN /\ env' = BindEnv(Cur.target, Module(Cur.a))
            /\ pc' = Step
            /\ UNCHANGED <<heap, tmp, err, out>>
       ELSE Raise("ModuleNotFoundError")
    /\ deps' = Touch(Reads(Cur.op))
    /\ Common
    /\ UNCHANGED <<cwd, rng, style, loads, computed, gw>>

\* NETCDF_DIR = "inference_data"
ExecAssignStr ==
    /\ At("assign_str")
    /\ env' = BindEnv(Cur.target, Str(Cur.a))
    /\ pc' = Step
    /\ Common
    /\ UNCHANGED <<cwd, rng, style, heap, tmp, err, out, loads, computed,
                   deps, gw>>

\* az.style.use('arviz-white')
ExecStyleUse ==
    /\ At("style_use")
    /\ IF ~Bound("az")
       THEN Raise("NameError") /\ UNCHANGED <<style, gw>>
       ELSE /\ style' = Cur.a
            /\ gw' = [gw EXCEPT !.style = pc.cell]
            /\ pc' = Step
            /\ UNCHANGED <<env, heap, tmp, err, out>>
    /\ Common
    /\ UNCHANGED <<cwd, rng, loads, computed, deps>>

\* target = az.from_netcdf(os.path.join("inference_data", file)): the relative
\* path is resolved against the working directory of the moment; the call
\* raises when the file is missing or was written by an incompatible version.
ExecFromNetcdf ==
    /\ At("from_netcdf")
    /\ IF ~Bound("az") \/ ~Bound("os")
       THEN Raise("NameError") /\ UNCHANGED <<loads, deps>>
       ELSE LET file == Join(cwd, Cur.path)
                ds == Basename(Cur.path)
            IN /\ loads' = [loads EXCEPT ![ds] = @ + 1]
               /\ deps' = Touch(Reads(Cur.op))
               /\ \E ok \in BOOLEAN :
                    /\ ok => file \in disk
                    /\ IF ok
                       THEN /\ heap' = Append(heap, [dataset |-> ds,
                                                     file |-> file, rev |-> 0])
                            /\ env' = BindEnv(Cur.target, IData(Len(heap) + 1))
                            /\ tmp' = BindTmp(Cur.target, IData(Len(heap) + 1))
                            /\ pc' = Step
                            /\ UNCHANGED <<err, out>>
                       ELSE Raise(IF file \in disk THEN "ValueError"
                                  ELSE "FileNotFoundError")
    /\ Common
    /\ UNCHANGED <<cwd, rng, style, computed, gw>>

\* target = az.load_arviz_data(dataset): a dataset shipped with ArviZ; the
\* call raises when the installed library cannot provide it.
ExecLoadArvizData ==
    /\ At("load_arviz_data")
    /\ IF ~Bound("az")
       THEN Raise("NameError") /\ UNCHANGED loads
       ELSE /\ loads' = [loads EXCEPT ![Cur.a] = @ + 1]
            /\ \E ok \in BOOLEAN :
                 IF ok
                 THEN /\ heap' = Append(heap, [dataset |-> Cur.a,
                                               file |-> <<>>, rev |-> 0])
                      /\ env' = BindEnv(Cur.target, IData(Len(heap) + 1))
                      /\ tmp' = BindTmp(Cur.target, IData(Len(heap) + 1))
                      /\ pc' = Step
                      /\ UNCHANGED <<err, out>>
                 ELSE Raise("ValueError")
    /\ Common
    /\ UNCHANGED <<cwd, rng, style, computed, deps, gw>>

\* target = {label: reference, ...}
ExecDict ==
    /\ At("dict")
    /\ IF \E i \in 1..Len(Cur.items) : ~RefBound(Cur.items[i][2])
       THEN Raise("NameError")
       ELSE LET pairs == [i \in 1..Len(Cur.items) |->
                            [label |-> Cur.items[i][1],
                             id |-> Lookup(Cur.items[i][2]).id]]
                d == Dict(DictOf(pairs))
            IN /\ env' = BindEnv(Cur.target, d)
               /\ tmp' = BindTmp(Cur.target, d)
               /\ pc' = Step
               /\ UNCHANGED <<heap, err, out>>
    /\ Common
    /\ UNCHANGED <<cwd, rng, style, loads, computed, deps, gw>>

\* The heap after a call that modifies the objects ids.
Bump(h, ids) ==
    [i \in 1..Len(h) |-> IF i \in ids THEN [h[i] EXCEPT !.rev = @ + 1] ELSE h[i]]

\* target = az.compare(d) / az.compare(d, scale="log")
ExecCompare ==
    /\ At("compare")
    /\ IF ~Bound("az") \/ ~RefBound(Cur.a)
       THEN Raise("NameError") /\ UNCHANGED computed
       ELSE LET d == Lookup(Cur.a)
                t == az_compare(d, heap, Cur.scale)
                ids == {d.items[i].id : i \in 1..Len(d.items)}
            IN /\ env' = BindEnv(Cur.target, t)
               /\ tmp' = BindTmp(Cur.target, t)
               /\ out' = Display(Cur.target, t)
               /\ heap' = Bump(heap, Modified(Cur, ids))
               /\ computed' = TRUE
               /\ pc' = Step
               /\ err' = err
    /\ Common
    /\ UNCHANGED <<cwd, rng, style, loads, deps, gw>>

\* az.plot_compare(table, plot_ic_diff=True, plot_standard_error=True,
\*                 insample_dev=True): drawn with the current plot style.
ExecPlotCompare ==
    /\ At("plot_compare")
    /\ IF ~Bound("az") \/ ~RefBound(Cur.a)
       THEN Raise("NameError") /\ UNCHANGED <<computed, deps>>
       ELSE /\ out' = Display(Cur.target,
                        [t |-> "figure", of |-> Lookup(Cur.a), style |-> style])
            /\ heap' = Bump(heap, Modified(Cur, {}))
            /\ computed' = TRUE
            /\ deps' = Touch(Reads(Cur.op))
            /\ pc' = Step
            /\ UNCHANGED <<env, tmp, err>>
    /\ Common
    /\ UNCHANGED <<cwd, rng, style, loads, gw>>

\* One statement of the running cell.
Exec ==
    \/ ExecImport
    \/ ExecSeed
    \/ ExecIfChdir
    \/ ExecImportLocal
    \/ ExecAssignStr
    \/ ExecStyleUse
    \/ ExecFromNetcdf
    \/ ExecLoadArvizData
    \/ ExecDict
    \/ ExecCompare
    \/ ExecPlotCompare

Next == RunCell \/ FinishCell \/ Exec

\* An interactive session of at most MaxRuns cell executions.
Spec == Init /\ [][Next]_vars

NextRunAll == RunNext \/ FinishCell \/ Exec

\* A top-to-bottom run of the notebook (Run All).
RunAll == Init /\ [][NextRunAll]_vars

\* ------------------------------------------------------------------ claims

\* The dataset a load statement names.
StmtDataset(s) == IF s.op = "from_netcdf" THEN Basename(s.path) ELSE s.a

\* Variables bound by a load call, and the cell that binds each.
LoadVars(n) ==
    IF n = "single" THEN {"greenpower", "budgetfertilizer", "rootsgalore"}
    ELSE {"data1", "data2"}

LoadCell(v) ==
    CASE v = "greenpower" -> 3
      [] v = "budgetfertilizer" -> 4
      [] v = "rootsgalore" -> 5
      [] OTHER -> 3

PlotCell == 5

\* C1 as stated: over a top-to-bottom run no dataset is the argument of more
\* than one load call.
C1_LoadedOnce == \A d \in Datasets : loads[d] <= 1

\* C1 as amended: over a top-to-bottom run each file of the single-model
\* notebook is the argument of at most one load call, and each of
\* centered_eight and non_centered_eight of at most two: one in the compare
\* cell and one more in the plot_compare cell.
C1_LoadedOncePerCell ==
    \A d \in Datasets :
        /\ loads[d] <= (IF nb = "single" THEN 1 ELSE 2)
        /\ (nb = "compare" /\ loads[d] = 2) => (pc.cell = PlotCell \/ runs >= PlotCell)

\* The comparison notebook has run to its plot: both datasets loaded twice.
C1_Witness ==
    /\ nb = "compare"
    /\ out.t = "figure"
    /\ loads["centered_eight"] = 2
    /\ loads["non_centered_eight"] = 2

C3_LoadsFirst == [][computed => loads' = loads]_vars

\* C3 as amended: within every cell the load calls come before the cell's
\* comparison and plotting calls; across cells the only loads executed after a
\* comparison call are those of the comparison notebook's plot_compare cell.
C3_LoadsFirstInCell ==
    [][loads' # loads
          => /\ \A j \in 1..(pc.stmt - 1) :
                    Cells(nb)[pc.cell][j].op \notin ComputeOps
             /\ computed => (nb = "compare" /\ pc.cell = PlotCell)]_vars

\* The plot_compare cell has just loaded centered_eight, after az.compare ran.
C3_Witness ==
    /\ computed
    /\ pc = [cell |-> PlotCell, stmt |-> 2]
    /\ Len(tmp) = 1
    /\ heap[tmp[1].id].dataset = "centered_eight"

\* C4: a load call that fails stops its cell at that statement with the error
\* shown by the notebook UI; the call is made once, nothing is bound to the
\* target, and no handler lets the cell carry on.
C4_LoadFailureUnhandled ==
    [][(Running /\ Cur.op \in LoadOps /\ err'.kind \notin {"", "NameError"})
          => /\ pc' = Idle
             /\ err' = [kind |-> err'.kind, cell |-> pc.cell, stmt |-> pc.stmt]
             /\ out' = [t |-> "traceback", kind |-> err'.kind]
             /\ env' = env
             /\ heap' = heap
             /\ tmp' = <<>>
             /\ loads'[StmtDataset(Cur)] = loads[StmtDataset(Cur)] + 1]_vars

\* GreenPower.nc is missing: the load cell has failed and greenpower is unbound.
C4_Witness ==
    /\ err = [kind |-> "FileNotFoundError", cell |-> 3, stmt |-> 1]
    /\ pc = Idle
    /\ out.t = "traceback"
    /\ env["greenpower"] = Unbound
    /\ loads["GreenPower.nc"] = 1

DirectOps ==
    {"import", "seed", "style_use", "from_netcdf", "load_arviz_data",
     "compare", "plot_compare", "assign_str", "dict"}

\* C7 as stated: every statement executed is a direct call into an external
\* library (or an import of one); no branching, no module of this repository.
C7_OnlyDirectCalls == Running => Cur.op \in DirectOps

\* C7 as amended: every statement executed is such a call, import or binding
\* except two of the setup cells: the conditional change of directory (both
\* notebooks) and the import of this repository's utils module (comparison
\* notebook only).
C7_DirectCallsButSetup ==
    Running =>
        \/ Cur.op \in DirectOps
        \/ pc.cell = SetupCell /\ Cur.op = "if_chdir"
        \/ pc.cell = SetupCell /\ nb = "compare" /\ Cur.op = "import_local"

\* The comparison notebook's setup cell is about to import utils.
C7_Witness == nb = "compare" /\ Running /\ Cur.op = "import_local"

\* The spelling of the names the two notebooks use.
Chars(s) ==
    CASE s = "GreenPower.nc" ->
           <<"G", "r", "e", "e", "n", "P", "o", "w", "e", "r", ".", "n", "c">>
      [] s = "BudgetFertilizer.nc" ->
           <<"B", "u", "d", "g", "e", "t", "F", "e", "r", "t", "i", "l", "i", "z", "e", "r", ".", "n", "c">>
      [] s = "RootsGalore.nc" ->
           <<"R", "o", "o", "t", "s", "G", "a", "l", "o", "r", "e", ".", "n", "c">>
      [] s = "greenpower" ->
           <<"g", "r", "e", "e", "n", "p", "o", "w", "e", "r">>
      [] s = "budgetfertilizer" ->
           <<"b", "u", "d", "g", "e", "t", "f", "e", "r", "t", "i", "l", "i", "z", "e", "r">>
      [] s = "rootsgalore" ->
           <<"r", "o", "o", "t", "s", "g", "a", "l", "o", "r", "e">>
      [] s = "non centered" ->
           <<"n", "o", "n", " ", "c", "e", "n", "t", "e", "r", "e", "d">>
      [] s = "centered" ->
           <<"c", "e", "n", "t", "e", "r", "e", "d">>
      [] s = "Centered 8 schools" ->
           <<"C", "e", "n", "t", "e", "r", "e", "d", " ", "8", " ", "s", "c", "h", "o", "o", "l", "s">>
      [] s = "Non-centered 8 schools" ->
           <<"N", "o", "n", "-", "c", "e", "n", "t", "e", "r", "e", "d", " ", "8", " ", "s", "c", "h", "o", "o", "l", "s">>
      [] s = "centered_eight" ->
           <<"c", "e", "n", "t", "e", "r", "e", "d", "_", "e", "i", "g", "h", "t">>
      [] s = "non_centered_eight" ->
           <<"n", "o", "n", "_", "c", "e", "n", "t", "e", "r", "e", "d", "_", "e", "i", "g", "h", "t">>
      [] OTHER -> <<>>

UpperCase ==
    <<"A", "B", "C", "D", "E", "F", "G", "H", "I", "J", "K", "L", "M",
      "N", "O", "P", "Q", "R", "S", "T", "U", "V", "W", "X", "Y", "Z">>

LowerCase ==
    <<"a", "b", "c", "d", "e", "f", "g", "h", "i", "j", "k", "l", "m",
      "n", "o", "p", "q", "r", "s", "t", "u", "v", "w", "x", "y", "z">>

\* str.lower
Lower(cs) ==
    [i \in 1..Len(cs) |->
        IF \E k \in 1..Len(UpperCase) : UpperCase[k] = cs[i]
        THEN LowerCase[CHOOSE k \in 1..Len(UpperCase) : UpperCase[k] = cs[i]]
        ELSE cs[i]]

DropSuffix(cs, suf) ==
    IF Len(cs) >= Len(suf) /\ SubSeq(cs, Len(cs) - Len(suf) + 1, Len(cs)) = suf
    THEN SubSeq(cs, 1, Len(cs) - Len(suf))
    ELSE cs

\* Blanks and hyphens written as underscores.
Snake(cs) == [i \in 1..Len(cs) |-> IF cs[i] \in {" ", "-"} THEN "_" ELSE cs[i]]

\* The variable named after the fertilizer of a file: GreenPower.nc -> greenpower
VarNamedAfter(file) == Lower(DropSuffix(Chars(file), <<".", "n", "c">>))

\* The dataset a model label names: "non centered" and "Non-centered 8 schools"
\* -> non_centered_eight
DatasetNamed(label) ==
    DropSuffix(Snake(Lower(Chars(label))),
               <<"_", "8", "_", "s", "c", "h", "o", "o", "l", "s">>)
        \o <<"_", "e", "i", "g", "h", "t">>

\* Every dict a cell has built and not yet dropped.
DictsBuilt ==
    {env[n] : n \in {m \in Names : env[m].t = "dict"}}
        \cup {tmp[i] : i \in {j \in 1..Len(tmp) : tmp[j].t = "dict"}}

\* C8: the load calls of the single-model notebook name files the narrative
\* names, each under inference_data, each bound to its own variable named
\* after its fertilizer; every label in a dict handed to az.compare is paired
\* with the dataset of that name.
C8_NamesAgree ==
    /\ nb = "single" =>
          /\ {d \in Datasets : loads[d] > 0} \subseteq NarrativeFiles
          /\ \A v \in Names : env[v].t = "idata" =>
                LET o == heap[env[v].id]
                IN /\ o.dataset \in NarrativeFiles
                   /\ Basename(Parent(o.file)) = "inference_data"
                   /\ Chars(v) = VarNamedAfter(o.dataset)
    /\ nb = "compare" =>
          \A d \in DictsBuilt : \A i \in 1..Len(d.items) :
              Chars(heap[d.items[i].id].dataset) = DatasetNamed(d.items[i].label)

\* All three files are loaded, each in the variable named after it.
C8_Witness ==
    /\ nb = "single"
    /\ \A f \in NarrativeFiles : loads[f] = 1
    /\ \A v \in LoadVars(nb) : env[v].t = "idata"
    /\ heap[env["greenpower"].id].dataset = "GreenPower.nc"
    /\ heap[env["budgetfertilizer"].id].dataset = "BudgetFertilizer.nc"
    /\ heap[env["rootsgalore"].id].dataset = "RootsGalore.nc"

RowLabels(t) == [i \in 1..Len(t.rows) |-> t.rows[i].label]

Keys(d) == {d.items[i].label : i \in 1..Len(d.items)}

OneRowPerKey(t, d) ==
    /\ Len(t.rows) = Cardinality(Keys(d))
    /\ {t.rows[i].label : i \in 1..Len(t.rows)} = Keys(d)
    /\ \A i, j \in 1..Len(t.rows) : t.rows[i].label = t.rows[j].label => i = j

\* C9: the table az.compare returns has one row per key of the dict it was
\* given, labelled with the key, no label twice; the tables saved in the
\* notebook carry the labels of compare_dict.
C9_OneRowPerModel ==
    /\ out.t = "table" =>
          /\ OneRowPerKey(out, env["compare_dict"])
          /\ RowLabels(out) = SavedRowLabels
    /\ (nb = "compare" /\ pc = [cell |-> PlotCell, stmt |-> 5]) =>
          /\ OneRowPerKey(env["model_compare"], tmp[3])
          /\ Len(env["model_compare"].rows) = 2

\* The compare cell shows its table for the two models of compare_dict.
C9_Witness ==
    /\ out.t = "table"
    /\ Keys(env["compare_dict"]) = {"non centered", "centered"}
    /\ Len(out.rows) = 2

\* The table column a listed item stands for.
ColumnNamed(item) ==
    CASE item = "WAIC" -> "waic"
      [] item = "Weight" -> "weight"
      [] item = "Warning" -> "warning"
      [] item = "Scale" -> "waic_scale"
      [] OTHER -> item

\* C10: the columns of the table az.compare returns are, in order, the seven
\* the notebook lists (WAIC, p_waic, weight, se, dse, warning, scale) and no
\* other.
C10_SevenColumns ==
    out.t = "table" =>
        out.columns = [i \in 1..Len(ListedColumns) |-> ColumnNamed(ListedColumns[i])]

LogCell == 4

\* The first row of table t has the lowest waic of the table.
LowestFirst(t) == \A k \in 1..Len(t.rows) : t.rows[1].waic <= t.rows[k].waic

\* The first row of table t has the highest waic of the table.
HighestFirst(t) == \A k \in 1..Len(t.rows) : t.rows[1].waic >= t.rows[k].waic

ZeroDifference(t) == t.rows[1].d_waic = 0 /\ t.rows[1].dse = 0

\* C11 as stated: in every table az.compare returns, for either scale, the
\* first row is the model with the lowest waic, with d_waic = 0 and dse = 0.
C11_LowestFirst ==
    /\ out.t = "table" => LowestFirst(out) /\ ZeroDifference(out)
    /\ env["model_compare"].t = "table" =>
          LowestFirst(env["model_compare"]) /\ ZeroDifference(env["model_compare"])

\* The first row is the best-ranked model of the scale of the table.
BestFirst(t) ==
    /\ ZeroDifference(t)
    /\ t.rows[1].waic_scale = "deviance" => LowestFirst(t)
    /\ t.rows[1].waic_scale = "log" => HighestFirst(t)

\* C11 as amended: the first row of every table has d_waic = 0 and dse = 0 and
\* is the model with the lowest waic on the deviance scale; on the log scale
\* (the scale="log" cell) it is the model with the highest waic, and another
\* row has a lower one.  Both saved tables rank "non centered" first.
C11_BestRankedFirst ==
    /\ out.t = "table" => BestFirst(out) /\ RowLabels(out)[1] = SavedRowLabels[1]
    /\ env["model_compare"].t = "table" => BestFirst(env["model_compare"])
    /\ (nb = "compare" /\ pc = [cell |-> LogCell, stmt |-> 2]) =>
          /\ out.t = "table"
          /\ out.rows[1].waic_scale = "log"
          /\ \E k \in 1..Len(out.rows) : out.rows[k].waic < out.rows[1].waic

\* The scale="log" cell shows its table: "non centered" first, with the higher
\* waic of the two.
C11_Witness ==
    /\ out.t = "table"
    /\ Len(out.rows) = 2
    /\ out.rows[1].waic_scale = "log"
    /\ out.rows[1].label = "non centered"
    /\ out.rows[1].waic > out.rows[2].waic

\* Directory d is a direct subdirectory of a directory named notebooks.
UnderNotebooks(d) == Len(d) >= 2 /\ Basename(Parent(d)) = "notebooks"

\* An execution of the setup cell ends in this step (completed or abandoned).
SetupCellEnds == pc.cell = SetupCell /\ pc'.cell = 0

\* C12: when an execution of the setup cell ends, the working directory is
\* the parent (the notebooks directory) of the directory the cell was started
\* in if that was a direct subdirectory of a directory named notebooks, and
\* is the directory the cell was started in if its last component was
\* already notebooks.
C12_SetupPostcondition ==
    [][SetupCellEnds =>
          /\ UnderNotebooks(cwd0) => cwd' = Parent(cwd0) /\ Basename(cwd') = "notebooks"
          /\ Basename(cwd0) = "notebooks" => cwd' = cwd0]_vars

\* The setup cell has run once, from the notebook's own directory, and has
\* left the session in the notebooks directory.
C12_Witness ==
    /\ pc = Idle
    /\ runs = 1
    /\ setups = 1
    /\ cwd0 = OwnDir(nb)
    /\ cwd = NotebooksDir

\* The first execution of the setup cell is over.
FirstSetupOver == setups >= 2 \/ (setups = 1 /\ pc.cell # SetupCell)

\* C13: in a session started in the notebook's own directory, from the end of
\* the first execution of the setup cell on, whatever cells are executed
\* (the setup cell again among them), the working directory is the one the
\* first execution left, the notebooks directory, and no step changes it.
C13_SetupIdempotent ==
    [][(start = OwnDir(nb) /\ FirstSetupOver) =>
          cwd = NotebooksDir /\ cwd' = cwd]_vars

\* The setup cell has been executed twice among four cell executions of a
\* session started in the notebook's own directory.
C13_Witness ==
    /\ start = OwnDir(nb)
    /\ setups = 2
    /\ runs = MaxRuns
    /\ pc = Idle
    /\ cwd = NotebooksDir

\* A load call of the single-model notebook is about to be evaluated in a
\* session started in the notebook's own directory.
LoadCallOwnDir == nb = "single" /\ start = OwnDir(nb) /\ At("from_netcdf")

\* C14 as stated: a load call opens notebooks/inference_data/<name>.nc if the
\* setup cell has been executed earlier in the session, and otherwise
\* resolves its relative path against the notebook's own directory and opens
\* the file of that path.
C14_ResolvesUnderOwnDir ==
    [][LoadCallOwnDir =>
          opened' = opened \cup
              {Join(IF setups >= 1 THEN NotebooksDir ELSE OwnDir(nb), Cur.path)}]_vars

\* C14 as amended: a load call opens notebooks/inference_data/<name>.nc if
\* and only if the setup cell has been executed earlier in the session; a
\* load call evaluated before the setup cell raises NameError (az and os are
\* bound by the setup cell), resolves no path, opens no file and binds
\* nothing.  No path under the notebook's own directory is ever opened.
C14_ReadsIffSetupRan ==
    [][LoadCallOwnDir =>
          /\ setups >= 1 =>
                /\ opened' = opened \cup {Join(NotebooksDir, Cur.path)}
                /\ Join(NotebooksDir, Cur.path) \in DataFiles
                /\ err'.kind # "NameError"
          /\ setups = 0 =>
                /\ opened' = opened
                /\ opened = {}
                /\ err'.kind = "NameError"
                /\ env' = env]_vars

\* A load cell run first in a session started in the notebook's own
\* directory has raised NameError and has opened no file.
C14_Witness ==
    /\ nb = "single"
    /\ start = OwnDir(nb)
    /\ cwd = OwnDir(nb)
    /\ setups = 0
    /\ runs = 1
    /\ err.kind = "NameError"
    /\ err.cell = LoadCell("greenpower")
    /\ opened = {}
    /\ ~Bound("greenpower")

\* The comparison notebook is about to evaluate its import of utils.
AtUtilsImport == nb = "compare" /\ At("import_local")

\* C15: when the comparison notebook's setup cell reaches
\* "from utils import metropolis_hastings" in a session started in the
\* notebook's own directory, the working directory is the notebooks
\* directory (the change of directory has been executed); if the import
\* fails the cell is abandoned there and NETCDF_DIR is unbound, then and
\* for as long as the failure is the last result shown.
C15_ChdirBeforeImport ==
    /\ [](AtUtilsImport /\ start = OwnDir(nb) => cwd = NotebooksDir)
    /\ [](err.kind = "ModuleNotFoundError" => pc = Idle /\ ~Bound("NETCDF_DIR"))
    /\ [][(AtUtilsImport /\ err'.kind = "ModuleNotFoundError") =>
             pc' = Idle /\ env' = env /\ ~Bound("NETCDF_DIR")]_vars

\* The import of utils has failed in the notebooks directory, in a session
\* started in the notebook's own directory; NETCDF_DIR is unbound.
C15_Witness ==
    /\ nb = "compare"
    /\ start = OwnDir(nb)
    /\ cwd = NotebooksDir
    /\ err.kind = "ModuleNotFoundError"
    /\ err.cell = SetupCell
    /\ pc = Idle
    /\ ~Bound("NETCDF_DIR")

\* A load call of the single-model notebook is about to be evaluated.
AtLoad == nb = "single" /\ At("from_netcdf")

\* The load call about to be evaluated has all it needs itself: the modules
\* it names are bound and its file is where its path resolves to.
LoadReady ==
    AtLoad /\ Bound("az") /\ Bound("os") /\ Join(cwd, Cur.path) \in disk

\* The load call is evaluated, raises nothing and binds its variable.
LoadSucceeds ==
    ExecFromNetcdf /\ err' = NoErr /\ env'[Cur.target].t = "idata"

\* The statements of the running cell after the current one.
Abandoned == {k \in 1..Len(Cells(nb)[pc.cell]) : k > pc.stmt}

\* C16: a load call of the single-model notebook changes no binding but that
\* of its own variable; a load call that fails changes no binding at all,
\* moves no directory and no file, and abandons no other load call with its
\* cell; and whatever has failed before, a load call whose own file is
\* there can succeed.
C16_LoadsIndependent ==
    /\ [][AtLoad =>
             /\ \A v \in LoadVars(nb) \ {Cur.target} : env'[v] = env[v]
             /\ err'.kind # "" =>
                   /\ env' = env /\ cwd' = cwd /\ disk' = disk
                   /\ \A k \in Abandoned :
                         Cells(nb)[pc.cell][k].op # "from_netcdf"]_vars
    /\ [](LoadReady => ENABLED LoadSucceeds)

\* The load of GreenPower.nc has been tried and has failed, and the cell
\* loading RootsGalore.nc has just bound its variable; budgetfertilizer is
\* bound as well.
C16_Witness ==
    /\ nb = "single"
    /\ loads["GreenPower.nc"] >= 1
    /\ \A i \in 1..Len(heap) : heap[i].dataset # "GreenPower.nc"
    /\ ~Bound("greenpower")
    /\ pc = [cell |-> LoadCell("rootsgalore"), stmt |-> 2]
    /\ err = NoErr
    /\ Bound("rootsgalore")
    /\ Bound("budgetfertilizer")

\* The statements that call into a library (np.random.seed apart).
LibraryCalls ==
    {"if_chdir", "style_use", "from_netcdf", "load_arviz_data", "compare",
     "plot_compare"}

\* This step makes a library call: the names the statement uses are bound.
CallMade == Running /\ Cur.op \in LibraryCalls /\ err'.kind # "NameError"

====
